---------------------------- MODULE Spec2Model ----------------------------
(***************************************************************************)
(* Model of the GradCafe Collector (src/fetch_data.py): the pagination     *)
(* loop, the per-page row extraction and filter, the free-text stats       *)
(* parser, the post-collection normalisation and the main driver.          *)
(*                                                                         *)
(* Texts are sequences of one-character strings, so that str.strip, the    *)
(* `in` substring test and the regular expressions of parse_stats are      *)
(* computed character by character.  Numbers are exact rationals <<n, d>>  *)
(* in lowest terms (d > 0); Null == <<0, 0>> is None / NaN.                *)
(***************************************************************************)
EXTENDS Integers, Sequences, FiniteSets, TLC

VARIABLES
    \* ---- main() and scrape_all_pages ----
    pc,            \* position of main()
    driver,        \* browser session: "none", "open", "closed"
    opened,        \* number of sessions webdriver.Chrome has opened
    quit_calls,    \* number of driver.quit() calls
    start_page,    \* arguments of scrape_all_pages
    end_page,
    page,          \* loop variable of scrape_all_pages (next page to request)
    requested,     \* sequence of page numbers passed to driver.get
    all_results,   \* accumulator of scrape_all_pages
    yields,        \* history: the list returned by each scrape_gradcafe_page call
    files,         \* snapshot files on disk: <<prefix, page number>>
    df,            \* the table held by main()
    csv,           \* contents of OUTPUT_CSV, or NoFile
    log,           \* history of external effects, in order
    last,          \* history: what the site served to the last call, and its outcome
    \* ---- a single scrape_gradcafe_page call ----
    pg_content,    \* what the site serves
    pg_writes,     \* whether the two snapshot writes succeed
    pg_ret,        \* outcome of the call
    \* ---- a single parse_stats call ----
    parts,         \* fragments the stats text is made of
    stats_raw,     \* the text
    stats,         \* the returned dict
    \* ---- repeated process_data calls ----
    tbl            \* <<input, process_data(input), process_data(process_data(input)), ...>>

mainVars  == <<pc, driver, opened, quit_calls, start_page, end_page, page,
               requested, all_results, yields, files, df, csv, log, last>>
pageVars  == <<pg_content, pg_writes, pg_ret>>
parseVars == <<parts, stats_raw, stats>>
procVars  == <<tbl>>
vars == <<mainVars, pageVars, parseVars, procVars>>

----------------------------------------------------------------------------
(* Bounds *)
MaxPage      == 3   \* largest end_page explored
MaxRows      == 2   \* rows of a results table in a single-page run
MaxParts     == 2   \* fragments of a stats text
MaxTableRows == 4   \* rows of a table handed to process_data
MaxRuns      == 2   \* successive process_data calls

(* Program constants *)
START_PAGE == 1
MinCells   == 7

----------------------------------------------------------------------------
(* Text constants *)
Txt_Yale == <<"Y", "a", "l", "e">>
Txt_PoliticalScience == <<"P", "o", "l", "i", "t", "i", "c", "a", "l", " ", "S", "c", "i", "e", "n", "c", "e">>
Txt_PhD == <<"P", "h", "D">>
Lbl_GPA == <<"G", "P", "A">>
Lbl_GREVerbal == <<"G", "R", "E", " ", "V", "e", "r", "b", "a", "l">>
Lbl_GREQuant == <<"G", "R", "E", " ", "Q", "u", "a", "n", "t", "i", "t", "a", "t", "i", "v", "e">>
Lbl_GREWriting == <<"G", "R", "E", " ", "A", "n", "a", "l", "y", "t", "i", "c", "a", "l", " ", "W", "r", "i", "t", "i", "n", "g">>
Raw_Accepted == <<"A", "c", "c", "e", "p", "t", "e", "d">>
Raw_Rejected == <<"R", "e", "j", "e", "c", "t", "e", "d">>
Raw_WaitListed == <<"W", "a", "i", "t", " ", "L", "i", "s", "t", "e", "d">>
Raw_Interview == <<"I", "n", "t", "e", "r", "v", "i", "e", "w">>
Raw_Other == <<"O", "t", "h", "e", "r">>
Dec_Accept == <<"A", "c", "c", "e", "p", "t">>
Dec_Reject == <<"R", "e", "j", "e", "c", "t">>
Dec_Waitlist == <<"W", "a", "i", "t", "l", "i", "s", "t">>
Dec_Other == <<"O", "t", "h", "e", "r">>
Dec_Unknown == <<"U", "n", "k", "n", "o", "w", "n">>
Frag_GPA380 == <<"G", "P", "A", ":", " ", "3", ".", "8", "0">>
Frag_gpa35 == <<"g", "p", "a", " ", "3", ".", "5">>
Frag_Verbal165 == <<"G", "R", "E", " ", "V", "e", "r", "b", "a", "l", ":", " ", "1", "6", "5">>
Frag_Quant168 == <<"G", "R", "E", " ", "Q", "u", "a", "n", "t", "i", "t", "a", "t", "i", "v", "e", ":", " ", "1", "6", "8">>
Frag_Writing450 == <<"G", "R", "E", " ", "A", "n", "a", "l", "y", "t", "i", "c", "a", "l", " ", "W", "r", "i", "t", "i", "n", "g", ":", " ", "4", ".", "5", "0">>
Frag_ShortQuant == <<"G", "R", "E", " ", "Q", "u", "a", "n", "t", ":", " ", "1", "6", "5">>
Frag_AWA == <<"G", "R", "E", " ", "A", "W", "A", ":", " ", "4", ".", "5">>
Frag_GPAna == <<"G", "P", "A", ":", " ", "n", "/", "a">>
Frag_VERBAL170 == <<"G", "R", "E", " ", "V", "E", "R", "B", "A", "L", ":", ":", "\t", "1", "7", "0">>
Frag_Sep == <<",", " ">>
Cell_YaleUniversity == <<"Y", "a", "l", "e", " ", "U", "n", "i", "v", "e", "r", "s", "i", "t", "y">>
Cell_NewHavenYale == <<" ", "N", "e", "w", " ", "H", "a", "v", "e", "n", ",", " ", "Y", "a", "l", "e", "\n">>
Cell_yale_lower == <<"y", "a", "l", "e", " ", "u", "n", "i", "v", "e", "r", "s", "i", "t", "y">>
Cell_Harvard == <<"H", "a", "r", "v", "a", "r", "d", " ", "U", "n", "i", "v", "e", "r", "s", "i", "t", "y">>
Cell_CompPoliticalScience == <<"C", "o", "m", "p", "a", "r", "a", "t", "i", "v", "e", " ", "P", "o", "l", "i", "t", "i", "c", "a", "l", " ", "S", "c", "i", "e", "n", "c", "e">>
Cell_Economics == <<"E", "c", "o", "n", "o", "m", "i", "c", "s">>
Cell_Masters == <<"M", "a", "s", "t", "e", "r", "s">>
Cell_PhDPadded == <<" ", "P", "h", "D", " ">>
Cell_Fall2024 == <<"F", "a", "l", "l", " ", "2", "0", "2", "4">>
Cell_AcceptedPadded == <<" ", "A", "c", "c", "e", "p", "t", "e", "d", "\n">>
Cell_Date == <<"1", " ", "M", "a", "r">>
Cell_Extra == <<"n", "o", "t", "e">>
Cell_FullStats == <<"G", "P", "A", ":", " ", "3", ".", "8", "0", ",", " ", "G", "R", "E", " ", "V", "e", "r", "b", "a", "l", ":", " ", "1", "6", "5", ",", " ", "G", "R", "E", " ", "Q", "u", "a", "n", "t", "i", "t", "a", "t", "i", "v", "e", ":", " ", "1", "6", "8", ",", " ", "G", "R", "E", " ", "A", "n", "a", "l", "y", "t", "i", "c", "a", "l", " ", "W", "r", "i", "t", "i", "n", "g", ":", " ", "4", ".", "5", "0">>
Cell_PartialStats == <<"G", "P", "A", " ", "3", ".", "5", " ", "G", "R", "E", " ", "V", "e", "r", "b", "a", "l", ":", " ", "1", "6", "0">>

----------------------------------------------------------------------------
(* Characters *)
Digits  == <<"0", "1", "2", "3", "4", "5", "6", "7", "8", "9">>
UpperAZ == <<"A", "B", "C", "D", "E", "F", "G", "H", "I", "J", "K", "L", "M",
             "N", "O", "P", "Q", "R", "S", "T", "U", "V", "W", "X", "Y", "Z">>
LowerAZ == <<"a", "b", "c", "d", "e", "f", "g", "h", "i", "j", "k", "l", "m",
             "n", "o", "p", "q", "r", "s", "t", "u", "v", "w", "x", "y", "z">>

IsSpace(c) == c \in {" ", "\t", "\n"}
IsDigit(c) == \E i \in 1..10 : Digits[i] = c
DigitVal(c) == (CHOOSE i \in 1..10 : Digits[i] = c) - 1
IsSep(c) == c = ":" \/ IsSpace(c)

\* re.IGNORECASE: letters are compared after case folding
Lower(c) ==
    IF \E i \in 1..26 : UpperAZ[i] = c
    THEN LowerAZ[CHOOSE i \in 1..26 : UpperAZ[i] = c]
    ELSE c

(* str.strip() *)
RECURSIVE LStrip(_)
LStrip(s) == IF s # <<>> /\ IsSpace(Head(s)) THEN LStrip(Tail(s)) ELSE s
RECURSIVE RStrip(_)
RStrip(s) == IF s # <<>> /\ IsSpace(s[Len(s)]) THEN RStrip(SubSeq(s, 1, Len(s) - 1)) ELSE s
strip(s) == RStrip(LStrip(s))

(* `sub in s` on str *)
In(sub, s) == \E i \in 1..(Len(s) - Len(sub) + 1) : SubSeq(s, i, i + Len(sub) - 1) = sub

----------------------------------------------------------------------------
(* Numbers *)
Null == <<0, 0>>
IsNull(x) == x[2] = 0

RECURSIVE GCD(_, _)
GCD(a, b) == IF b = 0 THEN a ELSE GCD(b, a % b)
Rat(n, d) == LET g == GCD(n, d) IN <<n \div g, d \div g>>
RatAdd(x, y) == Rat(x[1] * y[2] + y[1] * x[2], x[2] * y[2])
RatDivInt(x, k) == Rat(x[1], x[2] * k)
RatLeq(x, y) == x[1] * y[2] <= y[1] * x[2]

RECURSIVE Pow10(_)
Pow10(n) == IF n = 0 THEN 1 ELSE 10 * Pow10(n - 1)

\* value of a run of decimal digits
RECURSIVE DigitsValue(_)
DigitsValue(s) == IF s = <<>> THEN 0
                  ELSE 10 * DigitsValue(SubSeq(s, 1, Len(s) - 1)) + DigitVal(s[Len(s)])

\* int("165")
int(s) == Rat(DigitsValue(s), 1)
\* float("3.80"): one digit, a point, one or more digits
float(s) == LET frac == SubSeq(s, 3, Len(s))
            IN  Rat(DigitVal(s[1]) * Pow10(Len(frac)) + DigitsValue(frac), Pow10(Len(frac)))

----------------------------------------------------------------------------
(* The four regular expressions of parse_stats:                            *)
(*   <label>[:\s]+(\d\.\d+)   and   <label>[:\s]+(\d+)   under IGNORECASE  *)
RECURSIVE DigitRun(_, _)
DigitRun(s, p) == IF p <= Len(s) /\ IsDigit(s[p]) THEN 1 + DigitRun(s, p + 1) ELSE 0
RECURSIVE SepRun(_, _)
SepRun(s, p) == IF p <= Len(s) /\ IsSep(s[p]) THEN 1 + SepRun(s, p + 1) ELSE 0

\* a label match without re.IGNORECASE
LabelAt_CaseSensitive(s, i, label) ==
    /\ i + Len(label) - 1 <= Len(s)
    /\ \A j \in 1..Len(label) : s[i + j - 1] = label[j]

\* the label part of a pattern matches at position i, letters case-folded
LabelAt(s, i, label) ==
    /\ i + Len(label) - 1 <= Len(s)
    /\ \A j \in 1..Len(label) : Lower(s[i + j - 1]) = Lower(label[j])

\* position of the captured group when the separator run is consumed greedily
GroupStart(s, i, label) == i + Len(label) + SepRun(s, i + Len(label))

IntMatchAt(s, i, label) ==
    /\ LabelAt(s, i, label)
    /\ SepRun(s, i + Len(label)) >= 1
    /\ DigitRun(s, GroupStart(s, i, label)) >= 1
IntGroup(s, i, label) ==
    LET q == GroupStart(s, i, label) IN SubSeq(s, q, q + DigitRun(s, q) - 1)

DecMatchAt(s, i, label) ==
    /\ LabelAt(s, i, label)
    /\ SepRun(s, i + Len(label)) >= 1
    /\ LET q == GroupStart(s, i, label)
       IN  /\ q + 2 <= Len(s)
           /\ IsDigit(s[q])
           /\ s[q + 1] = "."
           /\ DigitRun(s, q + 2) >= 1
DecGroup(s, i, label) ==
    LET q == GroupStart(s, i, label) IN SubSeq(s, q, q + 1 + DigitRun(s, q + 2))

SetMin(S) == CHOOSE x \in S : \A y \in S : x <= y

\* re.search: the leftmost match, group(1) converted; Null when there is no match
SearchInt(s, label) ==
    LET M == {i \in 1..Len(s) : IntMatchAt(s, i, label)}
    IN  IF M = {} THEN Null ELSE int(IntGroup(s, SetMin(M), label))
SearchDec(s, label) ==
    LET M == {i \in 1..Len(s) : DecMatchAt(s, i, label)}
    IN  IF M = {} THEN Null ELSE float(DecGroup(s, SetMin(M), label))

parse_stats(s) ==
    [gpa         |-> SearchDec(s, Lbl_GPA),
     gre_verbal  |-> SearchInt(s, Lbl_GREVerbal),
     gre_quant   |-> SearchInt(s, Lbl_GREQuant),
     gre_writing |-> SearchDec(s, Lbl_GREWriting)]

Fields == {"gpa", "gre_verbal", "gre_quant", "gre_writing"}

----------------------------------------------------------------------------
(* Idle values of the variables a specification does not use *)
NotCalled == [kind |-> "not_called"]
NoFile    == [kind |-> "no_file"]
\* a DataFrame is DF(rows); NoneDF is Python's None
NoneDF    == [none |-> TRUE, rows |-> <<>>]
DF(rows)  == [none |-> FALSE, rows |-> rows]

IdleMain ==
    /\ pc = "idle" /\ driver = "none" /\ opened = 0 /\ quit_calls = 0
    /\ start_page = START_PAGE /\ end_page = 0 /\ page = START_PAGE
    /\ requested = <<>> /\ all_results = <<>> /\ yields = <<>> /\ files = {}
    /\ df = NoneDF /\ csv = NoFile /\ log = <<>> /\ last = NotCalled
IdlePage  == pg_content = NotCalled /\ pg_writes = <<TRUE, TRUE>> /\ pg_ret = NotCalled
IdleParse == parts = <<>> /\ stats_raw = <<>> /\ stats = NotCalled
IdleProc  == tbl = <<>>

----------------------------------------------------------------------------
(* parse_stats on its own: the text is a comma-separated list of fragments *)
Fragments ==
    <<[text |-> Frag_GPA380,     field |-> "gpa",         value |-> Rat(380, 100)],
      [text |-> Frag_gpa35,      field |-> "gpa",         value |-> Rat(35, 10)],
      [text |-> Frag_Verbal165,  field |-> "gre_verbal",  value |-> Rat(165, 1)],
      [text |-> Frag_VERBAL170,  field |-> "gre_verbal",  value |-> Rat(170, 1)],
      [text |-> Frag_Quant168,   field |-> "gre_quant",   value |-> Rat(168, 1)],
      [text |-> Frag_Writing450, field |-> "gre_writing", value |-> Rat(450, 100)],
      [text |-> Frag_ShortQuant, field |-> "none",        value |-> Null],
      [text |-> Frag_AWA,        field |-> "none",        value |-> Null],
      [text |-> Frag_GPAna,      field |-> "none",        value |-> Null]>>

SeqsUpTo(S, n) == UNION {[1..k -> S] : k \in 0..n}

RECURSIVE JoinFragments(_)
JoinFragments(ps) ==
    IF ps = <<>> THEN <<>>
    ELSE IF Len(ps) = 1 THEN Fragments[ps[1]].text
    ELSE Fragments[ps[1]].text \o Frag_Sep \o JoinFragments(Tail(ps))

InitParse ==
    /\ parts \in SeqsUpTo(1..Len(Fragments), MaxParts)
    /\ stats_raw = JoinFragments(parts)
    /\ stats = NotCalled
    /\ IdleMain /\ IdlePage /\ IdleProc

ParseStats ==
    /\ stats = NotCalled
    /\ stats' = parse_stats(stats_raw)
    /\ UNCHANGED <<parts, stats_raw, mainVars, pageVars, procVars>>

NextParse == ParseStats
SpecParse == InitParse /\ [][NextParse]_vars

\* the number written in the first fragment of the text that carries the field
Written(ps, f) ==
    LET I == {i \in 1..Len(ps) : Fragments[ps[i]].field = f}
    IN  IF I = {} THEN Null ELSE Fragments[ps[SetMin(I)]].value

----------------------------------------------------------------------------
(* process_data *)
NoDecision == <<"NaN">>     \* a missing decision value

decision_mapping ==
    (Raw_Accepted :> Dec_Accept) @@ (Raw_Rejected :> Dec_Reject) @@
    (Raw_WaitListed :> Dec_Waitlist) @@ (Raw_Interview :> Dec_Other) @@
    (Raw_Other :> Dec_Other)

\* the mapping without the fillna('Unknown'): an unmapped label stays as it is
MapDecision_NoFill(d) ==
    IF d \in DOMAIN decision_mapping THEN decision_mapping[d] ELSE d

\* Series.map(decision_mapping).fillna('Unknown') on one value
MapDecision(d) ==
    IF d \in DOMAIN decision_mapping THEN decision_mapping[d] ELSE Dec_Unknown

\* a coercion that also truncates to an integer
to_numeric_Trunc(x) == IF IsNull(x) THEN Null ELSE <<x[1] \div x[2], 1>>

\* pd.to_numeric(errors='coerce') on a value that is a float, an int or None
to_numeric(x) == IF IsNull(x) THEN Null ELSE Rat(x[1], x[2])

NotNull(x) == ~IsNull(x)

RECURSIVE RatSum(_)
RatSum(s) == IF s = <<>> THEN <<0, 1>> ELSE RatAdd(Head(s), RatSum(Tail(s)))

RECURSIVE Insert(_, _)
Insert(x, s) == IF s = <<>> THEN <<x>>
                ELSE IF RatLeq(x, Head(s)) THEN <<x>> \o s
                ELSE <<Head(s)>> \o Insert(x, Tail(s))
RECURSIVE Sorted(_)
Sorted(s) == IF s = <<>> THEN <<>> ELSE Insert(Head(s), Sorted(Tail(s)))

\* Series.median(): NaN skipped, NaN when nothing is left
median(col) ==
    LET vs == Sorted(SelectSeq(col, NotNull))
        n  == Len(vs)
    IN  IF n = 0 THEN Null
        ELSE IF n % 2 = 1 THEN vs[(n + 1) \div 2]
        ELSE RatDivInt(RatAdd(vs[n \div 2], vs[n \div 2 + 1]), 2)

\* the median used where the mean is meant
mean_AsMedian(col) == median(col)

\* Series.mean(): NaN skipped, NaN when nothing is left
mean(col) ==
    LET vs == SelectSeq(col, NotNull)
    IN  IF vs = <<>> THEN Null ELSE RatDivInt(RatSum(vs), Len(vs))

\* Series.fillna(v): filling with NaN leaves the NaN
fillna(x, v) == IF IsNull(x) THEN v ELSE x

Column(t, f) == [i \in 1..Len(t) |-> to_numeric(t[i][f])]

process_data(d) ==
    IF d.none \/ Len(d.rows) = 0 THEN NoneDF
    ELSE LET t                  == d.rows
             mean_gpa           == mean(Column(t, "gpa"))
             median_gre_verbal  == median(Column(t, "gre_verbal"))
             median_gre_quant   == median(Column(t, "gre_quant"))
             median_gre_writing == median(Column(t, "gre_writing"))
         IN  DF([i \in 1..Len(t) |->
                [t[i] EXCEPT
                   !.decision    = MapDecision(t[i].decision),
                   !.gpa         = fillna(to_numeric(t[i].gpa), mean_gpa),
                   !.gre_verbal  = fillna(to_numeric(t[i].gre_verbal), median_gre_verbal),
                   !.gre_quant   = fillna(to_numeric(t[i].gre_quant), median_gre_quant),
                   !.gre_writing = fillna(to_numeric(t[i].gre_writing), median_gre_writing)]])

Entry(dec, g, v, q, w) ==
    [institution |-> Cell_YaleUniversity, program |-> Txt_PoliticalScience,
     degree |-> Txt_PhD, season |-> Cell_Fall2024, decision |-> dec,
     gpa |-> g, gre_verbal |-> v, gre_quant |-> q, gre_writing |-> w,
     stats_raw |-> <<>>]

ProcRows ==
    <<Entry(Raw_Accepted,   Rat(38, 10), Rat(165, 1), Rat(168, 1), Rat(45, 10)),
      Entry(Raw_Rejected,   Null,        Null,        Null,        Null),
      Entry(Raw_WaitListed, Rat(35, 10), Rat(160, 1), Null,        Rat(4, 1)),
      Entry(Raw_Interview,  Null,        Rat(150, 1), Rat(170, 1), Null),
      Entry(Raw_Other,      Rat(3, 1),   Null,        Rat(160, 1), Rat(35, 10)),
      Entry(Dec_Accept,     Rat(39, 10), Rat(170, 1), Null,        Null),
      Entry(NoDecision,     Null,        Rat(155, 1), Rat(165, 1), Rat(5, 1))>>

InitProcess ==
    /\ \E ks \in SeqsUpTo(1..Len(ProcRows), MaxTableRows) :
           tbl = << DF([i \in 1..Len(ks) |-> ProcRows[ks[i]]]) >>
    /\ IdleMain /\ IdlePage /\ IdleParse

ProcessData ==
    /\ Len(tbl) >= 1
    /\ Len(tbl) <= MaxRuns
    /\ tbl' = Append(tbl, process_data(tbl[Len(tbl)]))
    /\ UNCHANGED <<mainVars, pageVars, parseVars>>

NextProcess == ProcessData
SpecProcess == InitProcess /\ [][NextProcess]_vars

Canonical == {Dec_Accept, Dec_Reject, Dec_Waitlist, Dec_Other, Dec_Unknown}
NonEmptyDF(d) == ~d.none /\ Len(d.rows) > 0
FullyPopulated(d) ==
    NonEmptyDF(d) /\ \A i \in 1..Len(d.rows) : \A f \in Fields : ~IsNull(d.rows[i][f])

\* C4: process_data maps the decision of every row of a non-empty table by
\* the fixed table Accepted->Accept, Rejected->Reject, Wait Listed->Waitlist,
\* Interview->Other, Other->Other, anything else (a missing value included)
\* ->Unknown; the row count is unchanged and every decision is canonical.
C4_DecisionNormalized ==
    \A k \in 1..(Len(tbl) - 1) :
        NonEmptyDF(tbl[k]) =>
            /\ ~tbl[k + 1].none
            /\ Len(tbl[k + 1].rows) = Len(tbl[k].rows)
            /\ \A i \in 1..Len(tbl[k].rows) :
                 LET raw == tbl[k].rows[i].decision
                     out == tbl[k + 1].rows[i].decision
                 IN  /\ out \in Canonical
                     /\ out = CASE raw = Raw_Accepted   -> Dec_Accept
                                [] raw = Raw_Rejected   -> Dec_Reject
                                [] raw = Raw_WaitListed -> Dec_Waitlist
                                [] raw = Raw_Interview  -> Dec_Other
                                [] raw = Raw_Other      -> Dec_Other
                                [] OTHER                -> Dec_Unknown

\* a table with a missing decision, an unmapped label and an Interview row
C4_Witness ==
    /\ Len(tbl) >= 2
    /\ Len(tbl[1].rows) = 3
    /\ tbl[1].rows[1].decision = NoDecision /\ tbl[2].rows[1].decision = Dec_Unknown
    /\ tbl[1].rows[2].decision = Dec_Accept /\ tbl[2].rows[2].decision = Dec_Unknown
    /\ tbl[1].rows[3].decision = Raw_Interview /\ tbl[2].rows[3].decision = Dec_Other

\* C5 as stated: process_data applied to an already normalized, fully
\* populated table returns the same table, in every column of every row.
C5_Original ==
    \A k \in 2..(Len(tbl) - 1) : FullyPopulated(tbl[k]) => tbl[k + 1] = tbl[k]

\* C5 amended: process_data applied to an already normalized, fully populated
\* table changes no column other than decision; the decision column is mapped
\* again, which keeps Other and Unknown and turns Accept, Reject and Waitlist
\* into Unknown.
C5_IdempotentExceptDecision ==
    \A k \in 2..(Len(tbl) - 1) :
        FullyPopulated(tbl[k]) =>
            /\ ~tbl[k + 1].none
            /\ Len(tbl[k + 1].rows) = Len(tbl[k].rows)
            /\ \A i \in 1..Len(tbl[k].rows) :
                 LET old == tbl[k].rows[i]
                     new == tbl[k + 1].rows[i]
                 IN  /\ [new EXCEPT !.decision = old.decision] = old
                     /\ new.decision = IF old.decision = Dec_Other THEN Dec_Other
                                       ELSE Dec_Unknown

\* a table that needed imputation, is fully populated after the first call
\* and holds an Accept row when process_data is called a second time
C5_Witness ==
    /\ Len(tbl) >= 3
    /\ FullyPopulated(tbl[2])
    /\ \E i \in 1..Len(tbl[1].rows) : IsNull(tbl[1].rows[i].gre_writing)
    /\ \E i \in 1..Len(tbl[2].rows) :
          tbl[2].rows[i].decision = Dec_Accept /\ tbl[3].rows[i].decision = Dec_Unknown

\* C8 as stated: after process_data on a non-empty table every missing gpa is
\* the mean, every missing GRE score the median of the non-missing values of
\* its column, non-missing values are unchanged, and no numeric field is left
\* missing.
C8_Original ==
    \A k \in 1..(Len(tbl) - 1) :
        NonEmptyDF(tbl[k]) =>
            \A i \in 1..Len(tbl[k].rows) : \A f \in Fields :
                /\ ~IsNull(tbl[k].rows[i][f]) => tbl[k + 1].rows[i][f] = tbl[k].rows[i][f]
                /\ ~IsNull(tbl[k + 1].rows[i][f])

\* C8 amended: after process_data on a non-empty table, in every numeric
\* column that has at least one non-missing value, every missing gpa is the
\* mean and every missing GRE score the median of the non-missing values of
\* that column and no value is left missing; non-missing values are
\* unchanged; a column with no non-missing value stays missing in every row.
C8_Imputation ==
    \A k \in 1..(Len(tbl) - 1) :
        NonEmptyDF(tbl[k]) =>
            \A f \in Fields :
                LET old  == tbl[k].rows
                    new  == tbl[k + 1].rows
                    I    == {i \in 1..Len(old) : ~IsNull(old[i][f])}
                    n    == Cardinality(I)
                    Lt(x, y) == x[1] * y[2] < y[1] * x[2]
                    Kth(j, a) ==
                        /\ \E i \in I : old[i][f] = a
                        /\ Cardinality({i \in I : Lt(old[i][f], a)}) < j
                        /\ j <= Cardinality({i \in I : ~Lt(a, old[i][f])})
                    S    == RatSum([i \in 1..Len(old) |->
                                      IF i \in I THEN old[i][f] ELSE <<0, 1>>])
                    IsMean(m) ==
                        /\ ~IsNull(m)
                        /\ m[1] * n * S[2] = S[1] * m[2]
                    IsMedian(m) ==
                        /\ ~IsNull(m)
                        /\ \E i1 \in I : \E i2 \in I :
                             /\ Kth((n + 1) \div 2, old[i1][f])
                             /\ Kth(n \div 2 + 1, old[i2][f])
                             /\ RatAdd(m, m) = RatAdd(old[i1][f], old[i2][f])
                IN  \A i \in 1..Len(old) :
                        IF i \in I THEN new[i][f] = old[i][f]
                        ELSE IF I = {} THEN IsNull(new[i][f])
                        ELSE IF f = "gpa" THEN IsMean(new[i][f])
                        ELSE IsMedian(new[i][f])

\* three known gpa values whose mean is not their median and one missing gpa,
\* three known writing scores and one missing one
C8_Witness ==
    /\ Len(tbl) >= 2
    /\ Len(tbl[1].rows) = 4
    /\ \E i \in 1..4 :
          /\ IsNull(tbl[1].rows[i].gpa) /\ tbl[2].rows[i].gpa = <<103, 30>>
          /\ IsNull(tbl[1].rows[i].gre_writing) /\ tbl[2].rows[i].gre_writing = <<4, 1>>

----------------------------------------------------------------------------
(* scrape_gradcafe_page *)

\* a <tr> of the results table: the texts of its <td> cells; a stale row is
\* one whose element lookup raises
Row(cells) == [cells |-> cells, stale |-> FALSE]
StaleRow   == [cells |-> <<>>, stale |-> TRUE]

RowCatalogue ==
    <<Row(<<Cell_YaleUniversity, Txt_PoliticalScience, Txt_PhD, Cell_Fall2024,
            Raw_Accepted, Cell_Date, Cell_FullStats>>),
      Row(<<Cell_NewHavenYale, Cell_CompPoliticalScience, Cell_PhDPadded, Cell_Fall2024,
            Raw_WaitListed, Cell_Date, Cell_PartialStats, Cell_Extra>>),
      Row(<<Cell_Harvard, Txt_PoliticalScience, Txt_PhD, Cell_Fall2024,
            Raw_Accepted, Cell_Date, Cell_FullStats>>),
      Row(<<Cell_yale_lower, Txt_PoliticalScience, Txt_PhD, Cell_Fall2024,
            Raw_Rejected, Cell_Date, <<>> >>),
      Row(<<Cell_YaleUniversity, Cell_Economics, Txt_PhD, Cell_Fall2024,
            Raw_Rejected, Cell_Date, <<>> >>),
      Row(<<Cell_YaleUniversity, Txt_PoliticalScience, Cell_Masters, Cell_Fall2024,
            Cell_AcceptedPadded, Cell_Date, Cell_PartialStats>>),
      Row(<<Cell_YaleUniversity, Txt_PoliticalScience, Txt_PhD, Cell_Fall2024,
            Raw_Accepted, Cell_Date>>),
      StaleRow>>

\* what the site serves for one request
GetRaises      == [get |-> "raise", table |-> FALSE, rows |-> <<>>]
NoTable        == [get |-> "ok",    table |-> FALSE, rows |-> <<>>]
TablePage(rs)  == [get |-> "ok",    table |-> TRUE,  rows |-> rs]

\* a test that accepts rows of six cells
EnoughCells_OffByOne(cells) == Len(cells) >= MinCells - 1

\* `if len(cells) < 7: continue`
EnoughCells(cells) == Len(cells) >= MinCells

\* the Yale / Political Science / PhD test
Qualifies(institution, program, degree) ==
    /\ In(Txt_Yale, institution)
    /\ In(Txt_PoliticalScience, program)
    /\ In(Txt_PhD, degree)

\* the dictionary appended for a qualifying row
MakeEntry(cells) ==
    LET stats_text == IF Len(cells) > 6 THEN strip(cells[7]) ELSE <<>>
        parsed     == parse_stats(stats_text)
    IN  [institution |-> strip(cells[1]), program |-> strip(cells[2]),
         degree |-> strip(cells[3]), season |-> strip(cells[4]),
         decision |-> strip(cells[5]),
         gpa |-> parsed.gpa, gre_verbal |-> parsed.gre_verbal,
         gre_quant |-> parsed.gre_quant, gre_writing |-> parsed.gre_writing,
         stats_raw |-> stats_text]

\* the body of `for row in rows` when no lookup raises
RECURSIVE ExtractEntries(_)
ExtractEntries(rows) ==
    IF rows = <<>> THEN <<>>
    ELSE LET cells == Head(rows).cells
         IN  IF ~EnoughCells(cells) THEN ExtractEntries(Tail(rows))
             ELSE IF Qualifies(strip(cells[1]), strip(cells[2]), strip(cells[3]))
                  THEN <<MakeEntry(cells)>> \o ExtractEntries(Tail(rows))
                  ELSE ExtractEntries(Tail(rows))

Returned(entries, written) == [kind |-> "return", entries |-> entries, written |-> written]
Raised == [kind |-> "raise", entries |-> <<>>, written |-> {}]

\* a handler that returns the empty list without saving the page source
error_handler_NoSnapshot(page_num, write_ok) == Returned(<<>>, {})

\* `except Exception`: save error_page_source_..._page{n}.html, return [];
\* a failure of the write leaves the handler as a new exception
error_handler(page_num, write_ok) ==
    IF write_ok THEN Returned(<<>>, {<<"error_page_source", page_num>>})
    ELSE Raised

\* `except NoSuchElementException`: save page_source_..._page{n}.html,
\* return []; a failure of the write is raised inside the outer try
no_table_handler(page_num, writes) ==
    IF writes[1] THEN Returned(<<>>, {<<"page_source", page_num>>})
    ELSE error_handler(page_num, writes[2])

scrape_gradcafe_page(content, page_num, writes) ==
    IF content.get = "raise" THEN error_handler(page_num, writes[2])
    ELSE IF ~content.table THEN no_table_handler(page_num, writes)
    ELSE IF \E i \in 1..Len(content.rows) : content.rows[i].stale
         THEN error_handler(page_num, writes[2])
    ELSE Returned(ExtractEntries(content.rows), {})

PageContents ==
    {GetRaises, NoTable} \cup
    {TablePage([i \in 1..Len(ks) |-> RowCatalogue[ks[i]]]) :
        ks \in SeqsUpTo(1..Len(RowCatalogue), MaxRows)}

InitPage ==
    /\ pg_content \in PageContents
    /\ pg_writes \in BOOLEAN \X BOOLEAN
    /\ pg_ret = NotCalled
    /\ IdleMain /\ IdleParse /\ IdleProc

ScrapeOnePage ==
    /\ pg_ret = NotCalled
    /\ pg_ret' = scrape_gradcafe_page(pg_content, START_PAGE, pg_writes)
    /\ UNCHANGED <<pg_content, pg_writes, mainVars, parseVars, procVars>>

NextPage == ScrapeOnePage
SpecPage == InitPage /\ [][NextPage]_vars

----------------------------------------------------------------------------
(* setup_driver, scrape_all_pages and main *)

\* the pages the site may serve to a request of the run
SitePages ==
    {GetRaises, NoTable, TablePage(<<>>),
     TablePage(<<RowCatalogue[1]>>),
     TablePage(<<RowCatalogue[3], RowCatalogue[2]>>),
     TablePage(<<RowCatalogue[3]>>),
     TablePage(<<RowCatalogue[1], StaleRow>>)}

\* the two os.path.exists checks, then webdriver.Chrome(...)
setup_driver(chrome_exists, chromedriver_exists, chrome_starts) ==
    IF ~chrome_exists THEN "FileNotFoundError"
    ELSE IF ~chromedriver_exists THEN "FileNotFoundError"
    ELSE IF ~chrome_starts THEN "Exception"
    ELSE "driver"

\* a range that also visits end_page + 1
InRange_OffByOne(p, first, final) == p >= first /\ p <= final + 1

\* `page in range(start_page, end_page + 1)`
InRange(p, first, final) == p >= first /\ p <= final

\* a loop that never breaks
ShouldBreak_Never(results) == FALSE

\* `if not results: break`
ShouldBreak(results) == Len(results) = 0

InitMain ==
    /\ pc = "start"
    /\ driver = "none" /\ opened = 0 /\ quit_calls = 0
    /\ start_page \in {START_PAGE, START_PAGE + 1}
    /\ end_page \in 0..MaxPage
    /\ page = start_page
    /\ requested = <<>> /\ all_results = <<>> /\ yields = <<>> /\ files = {}
    /\ df = NoneDF /\ csv = NoFile /\ log = <<>> /\ last = NotCalled
    /\ IdlePage /\ IdleParse /\ IdleProc

\* main(), lines 322-330: open the session, or return on any setup failure
main_setup_driver ==
    /\ pc = "start"
    /\ \E chrome_exists \in BOOLEAN, chromedriver_exists \in BOOLEAN, chrome_starts \in BOOLEAN :
         IF setup_driver(chrome_exists, chromedriver_exists, chrome_starts) = "driver"
         THEN /\ driver' = "open"
              /\ opened' = opened + 1
              /\ log' = Append(log, <<"open", 0>>)
              /\ pc' = "scrape"
         ELSE /\ pc' = "returned"
              /\ UNCHANGED <<driver, opened, log>>
    /\ UNCHANGED <<quit_calls, start_page, end_page, page, requested, all_results,
                   yields, files, df, csv, last, pageVars, parseVars, procVars>>

\* one iteration of the loop of scrape_all_pages
scrape_next_page ==
    /\ pc = "scrape"
    /\ InRange(page, start_page, end_page)
    /\ \E content \in SitePages, writes \in BOOLEAN \X BOOLEAN :
         LET ret == scrape_gradcafe_page(content, page, writes)
         IN  /\ requested' = Append(requested, page)
             /\ log' = Append(log, <<"get", page>>)
             /\ files' = files \cup ret.written
             /\ last' = [page |-> page, content |-> content, ret |-> ret]
             /\ IF ret.kind = "raise"
                THEN \* nothing above catches it: main() ends with the exception
                     /\ pc' = "crashed"
                     /\ UNCHANGED <<page, all_results, yields, df>>
                ELSE IF ShouldBreak(ret.entries)
                THEN /\ yields' = Append(yields, ret.entries)
                     /\ df' = DF(all_results)
                     /\ pc' = "scraped"
                     /\ UNCHANGED <<page, all_results>>
                ELSE /\ yields' = Append(yields, ret.entries)
                     /\ all_results' = all_results \o ret.entries
                     /\ page' = page + 1
                     /\ UNCHANGED <<pc, df>>
    /\ UNCHANGED <<driver, opened, quit_calls, start_page, end_page, csv,
                   pageVars, parseVars, procVars>>

\* the range is exhausted: scrape_all_pages returns the table
scrape_all_pages_return ==
    /\ pc = "scrape"
    /\ ~InRange(page, start_page, end_page)
    /\ df' = DF(all_results)
    /\ pc' = "scraped"
    /\ UNCHANGED <<driver, opened, quit_calls, start_page, end_page, page, requested,
                   all_results, yields, files, csv, log, last,
                   pageVars, parseVars, procVars>>

\* main(), lines 335-354: process the table and write the CSV file; a failed
\* write is caught and reported
main_process_and_save ==
    /\ pc = "scraped"
    /\ NonEmptyDF(df)
    /\ df' = process_data(df)
    /\ \E write_ok \in BOOLEAN :
         IF write_ok
         THEN csv' = [kind |-> "file", table |-> df'] /\ log' = Append(log, <<"to_csv", 0>>)
         ELSE UNCHANGED <<csv, log>>
    /\ pc' = "quit"
    /\ UNCHANGED <<driver, opened, quit_calls, start_page, end_page, page, requested,
                   all_results, yields, files, last, pageVars, parseVars, procVars>>

\* main(), lines 356-358: "No data scraped."
main_no_data ==
    /\ pc = "scraped"
    /\ ~NonEmptyDF(df)
    /\ pc' = "quit"
    /\ UNCHANGED <<driver, opened, quit_calls, start_page, end_page, page, requested,
                   all_results, yields, files, df, csv, log, last,
                   pageVars, parseVars, procVars>>

\* an end of main() that forgets the session
main_quit_Skipped ==
    /\ pc = "quit"
    /\ pc' = "done"
    /\ UNCHANGED <<driver, opened, quit_calls, start_page, end_page, page, requested,
                   all_results, yields, files, df, csv, log, last,
                   pageVars, parseVars, procVars>>

\* main(), lines 360-363: driver.quit()
main_quit ==
    /\ pc = "quit"
    /\ driver' = "closed"
    /\ quit_calls' = quit_calls + 1
    /\ log' = Append(log, <<"quit", 0>>)
    /\ pc' = "done"
    /\ UNCHANGED <<opened, start_page, end_page, page, requested,
                   all_results, yields, files, df, csv, last,
                   pageVars, parseVars, procVars>>

Next ==
    \/ main_setup_driver
    \/ scrape_next_page
    \/ scrape_all_pages_return
    \/ main_process_and_save
    \/ main_no_data
    \/ main_quit

Spec == InitMain /\ [][Next]_vars

\* main() is sequential code: whatever step is enabled is eventually taken
FairSpec == Spec /\ WF_vars(Next)

RECURSIVE Flatten(_)
Flatten(ss) == IF ss = <<>> THEN <<>> ELSE Head(ss) \o Flatten(Tail(ss))

\* an exception is raised while the page is processed: by the page load, by
\* the table lookup, or by the lookup of a row or cell
Errored(content) ==
    \/ content.get = "raise"
    \/ ~content.table
    \/ \E i \in 1..Len(content.rows) : content.rows[i].stale

\* C1: if the first k-1 requested pages each yield at least one row and the
\* k-th yields none, the loop has stopped there: exactly pages start_page ..
\* start_page+k-1 were requested, once each and in order, none beyond, and
\* the returned table is the rows of the first k-1 pages in page order.
C1_HaltsAtFirstEmptyPage ==
    \A k \in 1..Len(yields) :
        (yields[k] = <<>> /\ \A i \in 1..(k - 1) : yields[i] # <<>>) =>
            /\ Len(yields) = k
            /\ pc # "scrape"
            /\ start_page + k - 1 <= end_page
            /\ requested = [i \in 1..k |-> start_page + i - 1]
            /\ all_results = Flatten(SubSeq(yields, 1, k - 1))
            /\ pc = "scraped" => df = DF(all_results)

\* the end-to-end scenario: page 1 holds the Yale row, page 2 holds no row;
\* one normalized row is written and page 3 is never requested
C1_Witness ==
    /\ pc = "done"
    /\ start_page = 1 /\ end_page >= 3
    /\ requested = <<1, 2>>
    /\ Len(yields) = 2 /\ Len(yields[1]) = 1 /\ yields[2] = <<>>
    /\ csv # NoFile
    /\ Len(csv.table.rows) = 1
    /\ csv.table.rows[1].institution = Cell_YaleUniversity
    /\ csv.table.rows[1].decision = Dec_Accept
    /\ csv.table.rows[1].gpa = <<19, 5>>
    /\ csv.table.rows[1].gre_verbal = <<165, 1>>
    /\ csv.table.rows[1].gre_quant = <<168, 1>>
    /\ csv.table.rows[1].gre_writing = <<9, 2>>

\* C2: whenever an exception is raised while a page is processed,
\* scrape_gradcafe_page returns the empty list, nothing propagates, and the
\* loop stops with only the rows of the earlier pages.
C2_ErrorsCaught ==
    (last # NotCalled /\ Errored(last.content)) =>
        /\ last.ret.kind = "return"
        /\ last.ret.entries = <<>>
        /\ pc \notin {"scrape", "crashed"}
        /\ all_results = Flatten(SubSeq(yields, 1, Len(yields) - 1))

\* C3: a session is opened at most once; at the end of main() driver.quit
\* has been called exactly once, after every page request and every write;
\* after a failed setup_driver main() has returned with no session, no page
\* request and no output file.
C3_SessionLifecycle ==
    /\ opened <= 1
    /\ quit_calls <= 1
    /\ pc = "done" =>
          /\ opened = 1 /\ quit_calls = 1 /\ driver = "closed"
          /\ log[Len(log)] = <<"quit", 0>>
          /\ Cardinality({i \in 1..Len(log) : log[i][1] = "quit"}) = 1
          /\ Cardinality({i \in 1..Len(log) : log[i][1] = "open"}) = 1
    /\ pc = "returned" =>
          /\ opened = 0 /\ quit_calls = 0 /\ driver = "none"
          /\ requested = <<>> /\ log = <<>> /\ files = {}
          /\ csv = NoFile

\* rows were collected, the CSV write failed, and the session was closed
C3_Witness ==
    /\ pc = "done"
    /\ NonEmptyDF(df) /\ csv = NoFile
    /\ Len(requested) >= 2
    /\ driver = "closed" /\ quit_calls = 1

C10_Safe ==
    /\ \A i \in 1..Len(requested) :
          requested[i] = start_page + i - 1 /\ requested[i] <= end_page
    /\ Len(requested) <= (IF end_page >= start_page THEN end_page - start_page + 1 ELSE 0)
    /\ (start_page > end_page /\ pc = "scraped") =>
          requested = <<>> /\ df = DF(<<>>)

\* C10: the pages requested are start_page, start_page+1, ... in this order,
\* each once and none above end_page, so at most end_page - start_page + 1
\* requests are made; with start_page > end_page no page is requested and the
\* table is empty; and the loop always comes to an end.
C10_OrderedBoundedTerminating ==
    []C10_Safe /\ <>(pc \notin {"start", "scrape"})

\* every page of the range yields rows and the loop ends with the range
C10_Witness ==
    /\ pc = "scraped"
    /\ start_page = 1 /\ end_page >= 3
    /\ Len(requested) = end_page
    /\ Len(yields) = end_page
    /\ \A i \in 1..Len(yields) : yields[i] # <<>>

=============================================================================
